---- MODULE Spec2Model ----
(***************************************************************************)
(* Model of the architecture-specialised deep researcher:                  *)
(*   architecture_researcher.py  topic transformation, final report        *)
(*                               generation, node substitution, validator  *)
(*   architecture_config.py      ArchitectureResearchConfig                *)
(*   architecture_prompts.py     the prompt templates (their placeholders) *)
(* Text is modelled as a sequence of one-character strings, so that        *)
(* str.lower, the `in` operator, str.count and re.search are computed the  *)
(* way Python computes them.                                               *)
(***************************************************************************)
EXTENDS Integers, Sequences, FiniteSets, TLC

(***************************************************************************)
(* Text primitives                                                         *)
(***************************************************************************)
UpperChars == <<"A","B","C","D","E","F","G","H","I","J","K","L","M",
                "N","O","P","Q","R","S","T","U","V","W","X","Y","Z">>

LowerChars == <<"a","b","c","d","e","f","g","h","i","j","k","l","m",
                "n","o","p","q","r","s","t","u","v","w","x","y","z">>

Digits == <<"0","1","2","3","4","5","6","7","8","9">>

\* the upper-case letters, each mapped to its lower-case letter
LowerTable ==
    [ c \in { UpperChars[k] : k \in DOMAIN UpperChars } |->
        LowerChars[CHOOSE k \in DOMAIN UpperChars : UpperChars[k] = c] ]

\* str.lower() on one character
LowerChar(c) == IF c \in DOMAIN LowerTable THEN LowerTable[c] ELSE c

\* str.lower()
Lower(s) == SubSeq([ k \in DOMAIN s |-> LowerChar(s[k]) ], 1, Len(s))

\* s[p : p + len(sub)] == sub
MatchAt(s, sub, p) ==
    /\ p >= 1
    /\ p + Len(sub) - 1 <= Len(s)
    /\ \A k \in 1..Len(sub) : s[p + k - 1] = sub[k]

\* sub in s
Contains(s, sub) == \E p \in 1..(Len(s) + 1) : MatchAt(s, sub, p)

\* s.find(sub, p): the first match position from p on, 0 when there is none
Find(s, sub, p) ==
    IF \E q \in p..Len(s) : MatchAt(s, sub, q)
    THEN CHOOSE q \in p..Len(s) :
            /\ MatchAt(s, sub, q)
            /\ \A r \in p..(q - 1) : ~MatchAt(s, sub, r)
    ELSE 0

\* s.count(sub): non-overlapping occurrences, found left to right from p
RECURSIVE CountFrom(_, _, _)
CountFrom(s, sub, p) ==
    LET q == Find(s, sub, p)
    IN  IF q = 0 THEN 0 ELSE 1 + CountFrom(s, sub, q + Len(sub))

Count(s, sub) == CountFrom(s, sub, 1)

IsDigit(c) == \E k \in DOMAIN Digits : Digits[k] = c

DigitValue(c) == (CHOOSE k \in DOMAIN Digits : Digits[k] = c) - 1

\* int(text) for a text of decimal digits
RECURSIVE IntOf(_)
IntOf(s) ==
    IF Len(s) = 0 THEN 0
    ELSE 10 * IntOf(SubSeq(s, 1, Len(s) - 1)) + DigitValue(s[Len(s)])

(***************************************************************************)
(* Absent values                                                           *)
(***************************************************************************)
\* Python None where a text is expected
None == "None"

\* Python None where the year is expected (falsy, like None, in `year or 2025`)
NoYear == 0

(***************************************************************************)
(* Location / year extraction (architecture_researcher.py 42-73)           *)
(***************************************************************************)
\* the dict literal, in insertion order
location_keywords == <<
    [keyword |-> <<"n","e","w"," ","y","o","r","k">>,         location_value |-> "New York, USA"],
    [keyword |-> <<"c","a","l","i","f","o","r","n","i","a">>, location_value |-> "California, USA"],
    [keyword |-> <<"l","o","n","d","o","n">>,                 location_value |-> "London, UK"],
    [keyword |-> <<"t","o","k","y","o">>,                     location_value |-> "Tokyo, Japan"],
    [keyword |-> <<"p","a","r","i","s">>,                     location_value |-> "Paris, France"],
    [keyword |-> <<"b","e","r","l","i","n">>,                 location_value |-> "Berlin, Germany"],
    [keyword |-> <<"s","y","d","n","e","y">>,                 location_value |-> "Sydney, Australia"],
    [keyword |-> <<"t","o","r","o","n","t","o">>,             location_value |-> "Toronto, Canada"],
    [keyword |-> <<"u","s","a">>,                             location_value |-> "United States"],
    [keyword |-> <<"e","u","r","o","p","e">>,                 location_value |-> "Europe"],
    [keyword |-> <<"a","s","i","a">>,                         location_value |-> "Asia"] >>

\* content of one message, lower-cased
MessageContent(message) == Lower(message)

\* for keyword, location_value in location_keywords.items():
\*     if keyword in content: location = location_value; break
RECURSIVE ScanKeywords(_, _, _)
ScanKeywords(content, k, location) ==
    IF k > Len(location_keywords) THEN location
    ELSE IF Contains(content, location_keywords[k].keyword)
         THEN location_keywords[k].location_value
         ELSE ScanKeywords(content, k + 1, location)

LocationAfter(content, location) == ScanKeywords(content, 1, location)

\* the pattern 20(2[4-9]|3[0-5]) matches at position p
YearPatternAt(s, p) ==
    /\ p >= 1
    /\ p + 3 <= Len(s)
    /\ s[p] = "2"
    /\ s[p + 1] = "0"
    /\ \/ s[p + 2] = "2" /\ s[p + 3] \in {"4","5","6","7","8","9"}
       \/ s[p + 2] = "3" /\ s[p + 3] \in {"0","1","2","3","4","5"}

\* re.search: the leftmost match position, 0 when there is none
YearSearch(s) ==
    IF \E p \in 1..Len(s) : YearPatternAt(s, p)
    THEN CHOOSE p \in 1..Len(s) :
            /\ YearPatternAt(s, p)
            /\ \A q \in 1..(p - 1) : ~YearPatternAt(s, q)
    ELSE 0

\* if year_match: year = int(year_match.group())
YearAfter(content, year) ==
    LET p == YearSearch(content)
    IN  IF p # 0 THEN IntOf(SubSeq(content, p, p + 3)) ELSE year

(***************************************************************************)
(* ArchitectureResearchConfig (architecture_config.py)                     *)
(***************************************************************************)
\* __init__ storing its arguments as given, without the defaults
ArchitectureResearchConfigNoDefaults(loc, yr, focus) ==
    [ location |-> loc, year |-> yr, industry_focus |-> focus ]

\* __init__: each argument falls back to its default when falsy
ArchitectureResearchConfig(loc, yr, focus) ==
    [ location       |-> IF loc = None THEN "United States" ELSE loc,
      year           |-> IF yr = NoYear THEN 2025 ELSE yr,
      industry_focus |-> IF focus = None THEN "Architecture & Construction" ELSE focus ]

create_architecture_config(loc, yr, focus) == ArchitectureResearchConfig(loc, yr, focus)

\* no configuration object (state.get("architecture_config") is None)
NoConfig == [ location |-> None, year |-> NoYear, industry_focus |-> None ]

required_sections == <<
    <<"E","x","e","c","u","t","i","v","e"," ","S","u","m","m","a","r","y">>,
    <<"C","u","r","r","e","n","t"," ","M","a","r","k","e","t"," ","L","a","n","d","s","c","a","p","e">>,
    <<"T","o","p"," ","A","r","c","h","i","t","e","c","t","u","r","e"," ","T","r","e","n","d","s">>,
    <<"I","m","p","l","e","m","e","n","t","a","t","i","o","n"," ","R","e","c","o","m","m","e","n","d","a","t","i","o","n","s">>,
    <<"S","o","u","r","c","e","s">> >>

minimum_trends == 3

get_validation_criteria ==
    [ content_requirements |->
        [ minimum_trends             |-> minimum_trends,
          minimum_examples_per_trend |-> 2,
          minimum_sources            |-> 10,
          required_sections          |-> required_sections ],
      quality_indicators |->
        [ specific_project_examples |-> TRUE,
          cost_information          |-> TRUE,
          timeline_projections      |-> TRUE,
          expert_quotes             |-> TRUE,
          quantitative_data         |-> TRUE,
          regional_considerations   |-> TRUE ],
      technical_depth |->
        [ material_specifications   |-> TRUE,
          technology_details        |-> TRUE,
          implementation_challenges |-> TRUE,
          regulatory_considerations |-> TRUE ] ]

(***************************************************************************)
(* Prompt templates (architecture_prompts.py): a template is modelled by   *)
(* the set of placeholders it references; str.format substitutes the       *)
(* keyword arguments it is given and raises KeyError for a placeholder     *)
(* that has none.                                                          *)
(***************************************************************************)
architecture_research_topic_prompt == {"messages", "date"}

location_based_research_prompt == {"location"}

architecture_report_template == {"research_brief", "date", "findings"}

FormatError == [ ok |-> FALSE, text |-> <<>> ]

\* a formatter that leaves a placeholder without a value blank
FormatLenient(template, values) ==
    [ ok |-> TRUE,
      text |-> [f \in template |-> IF f \in DOMAIN values THEN values[f] ELSE <<>>] ]

\* template.format(**values)
Format(template, values) ==
    IF template \subseteq DOMAIN values
    THEN [ ok |-> TRUE, text |-> [f \in template |-> values[f]] ]
    ELSE FormatError

(***************************************************************************)
(* State                                                                   *)
(***************************************************************************)
VARIABLES
    messages,       \* state["messages"]: the text payload of each message
    templates,      \* the module-level templates: topic, location, report
    pc,             \* position of the request in the two replaced steps
    msg_index,      \* position of `for message in messages`
    location,       \* local of the topic transformation
    year,           \* local of the topic transformation
    arch_config,    \* local arch_config of the running step
    prompt,         \* the prompt rendered last
    model_calls,    \* the model invocations made so far, in order
    state,          \* AgentState fields the steps write and read back
    topic_result,   \* mapping returned by the topic transformation
    report_result,  \* mapping returned by the final report generation
    raised,         \* exception that escaped a step (None when none did)
    graphs,         \* heap of step tables: graphs[1] is the base builder's
    systems,        \* references of the graphs compiled so far
    validations     \* the last two calls of the validator, oldest first

vars == << messages, templates, pc, msg_index, location, year, arch_config,
           prompt, model_calls, state, topic_result, report_result, raised,
           graphs, systems, validations >>

request_vars == << messages, templates, pc, msg_index, location, year,
                   arch_config, prompt, model_calls, state, topic_result,
                   report_result, raised >>

graph_vars == << graphs, systems >>

(***************************************************************************)
(* validate_architecture_report_quality (architecture_researcher.py 247)   *)
(***************************************************************************)
TrendText == <<"t","r","e","n","d">>

ProjectText == <<"p","r","o","j","e","c","t">>

BuildingText == <<"b","u","i","l","d","i","n","g">>

cost_terms == <<
    <<"c","o","s","t">>,
    <<"$">>,
    <<"b","u","d","g","e","t">>,
    <<"p","r","i","c","e">>,
    <<"e","x","p","e","n","s","i","v","e">>,
    <<"a","f","f","o","r","d","a","b","l","e">> >>

\* f"Report mentions {trend_count} trends, minimum required: {minimum}"
TrendIssue(trend_count, minimum) ==
    [ kind |-> "trend_count", count |-> trend_count, minimum |-> minimum, section |-> <<>> ]

\* f"Missing required section: {section}"
SectionIssue(section) ==
    [ kind |-> "missing_section", count |-> 0, minimum |-> 0, section |-> section ]

\* results kept from the previous call instead of a dict of the call's own
SharedResults ==
    IF validations = <<>>
    THEN [ passes_validation |-> TRUE, issues |-> <<>>, recommendations |-> <<>> ]
    ELSE validations[Len(validations)].results

\* the results a call starts from: a dict built by the call itself
NewResults ==
    [ passes_validation |-> TRUE, issues |-> <<>>, recommendations |-> <<>> ]

\* the count compared with another entry of the criteria
CheckTrendsWrongMinimum(report_content, content_req, results) ==
    LET trend_count == Count(Lower(report_content), TrendText)
    IN  IF trend_count < content_req.minimum_examples_per_trend
        THEN [ results EXCEPT
                 !.issues = Append(@, TrendIssue(trend_count, content_req.minimum_trends)),
                 !.passes_validation = FALSE ]
        ELSE results

\* trend_count = report_content.lower().count("trend"); compared with the minimum
CheckTrends(report_content, content_req, results) ==
    LET trend_count == Count(Lower(report_content), TrendText)
    IN  IF trend_count < content_req.minimum_trends
        THEN [ results EXCEPT
                 !.issues = Append(@, TrendIssue(trend_count, content_req.minimum_trends)),
                 !.passes_validation = FALSE ]
        ELSE results

\* the section name looked up as written, in the lower-cased report
RECURSIVE CheckSectionsAsWritten(_, _, _, _)
CheckSectionsAsWritten(report_content, sections, k, results) ==
    IF k > Len(sections) THEN results
    ELSE IF ~Contains(Lower(report_content), sections[k])
         THEN CheckSectionsAsWritten(report_content, sections, k + 1,
                 [ results EXCEPT !.issues = Append(@, SectionIssue(sections[k])),
                                  !.passes_validation = FALSE ])
         ELSE CheckSectionsAsWritten(report_content, sections, k + 1, results)

\* for section in content_req["required_sections"]: ... from section k on
RECURSIVE CheckSections(_, _, _, _)
CheckSections(report_content, sections, k, results) ==
    IF k > Len(sections) THEN results
    ELSE IF ~Contains(Lower(report_content), Lower(sections[k]))
         THEN CheckSections(report_content, sections, k + 1,
                 [ results EXCEPT !.issues = Append(@, SectionIssue(sections[k])),
                                  !.passes_validation = FALSE ])
         ELSE CheckSections(report_content, sections, k + 1, results)

\* the missing project examples recorded as a failure of the report
CheckProjectExamplesFatal(report_content, quality_indicators, results) ==
    IF /\ quality_indicators.specific_project_examples
       /\ ~Contains(Lower(report_content), ProjectText)
       /\ ~Contains(Lower(report_content), BuildingText)
    THEN [ results EXCEPT !.recommendations =
              Append(@, "Consider adding specific project examples"),
                          !.passes_validation = FALSE ]
    ELSE results

\* if quality_indicators["specific_project_examples"]: ...
CheckProjectExamples(report_content, quality_indicators, results) ==
    IF /\ quality_indicators.specific_project_examples
       /\ ~Contains(Lower(report_content), ProjectText)
       /\ ~Contains(Lower(report_content), BuildingText)
    THEN [ results EXCEPT !.recommendations =
              Append(@, "Consider adding specific project examples") ]
    ELSE results

\* if quality_indicators["cost_information"]: ...
CheckCostInformation(report_content, quality_indicators, results) ==
    IF /\ quality_indicators.cost_information
       /\ ~\E k \in DOMAIN cost_terms : Contains(Lower(report_content), cost_terms[k])
    THEN [ results EXCEPT !.recommendations =
              Append(@, "Consider adding cost analysis and budget implications") ]
    ELSE results

validate_architecture_report_quality(report_content, config) ==
    LET validation_criteria == get_validation_criteria
        content_req         == validation_criteria.content_requirements
        quality_indicators  == validation_criteria.quality_indicators
        r1 == CheckTrends(report_content, content_req, NewResults)
        r2 == CheckSections(report_content, content_req.required_sections, 1, r1)
        r3 == CheckProjectExamples(report_content, quality_indicators, r2)
        r4 == CheckCostInformation(report_content, quality_indicators, r3)
    IN  r4

(***************************************************************************)
(* Inputs                                                                  *)
(***************************************************************************)
MaxMessages == 2

MaxTrendWords == 2

\* message texts: keywords in either case, years in and out of range,
\* digit runs longer than four, several hints in one message
MessagePool == {
    <<"T","o","k","y","o">>,
    <<"p","a","r","i","s"," ","2","0","2","6">>,
    <<"l","o","n","d","o","n">>,
    <<"a","s","i","a">>,
    <<"1","2","0","3","0","1">>,
    <<"u","s","a"," ","2","0","2","4","5">>,
    <<"2","0","2","3"," ","o","r"," ","2","0","3","6">>,
    <<"n","e","w"," ","y","o","r","k"," ","2","0","3","1">>,
    <<"h","e","l","l","o">>,
    <<"T","O","K","Y","O"," ","a","n","d"," ","p","a","r","i","s"," ","2","0","3","5"," ","2","0","2","4">> }

RECURSIVE SeqsUpTo(_, _)
SeqsUpTo(S, n) ==
    IF n = 0 THEN { <<>> }
    ELSE LET shorter == SeqsUpTo(S, n - 1)
         IN  shorter \cup { Append(q, x) : q \in shorter, x \in S }

MessageLists == SeqsUpTo(MessagePool, MaxMessages)

\* the templates as shipped, and each with one placeholder ("year") that no
\* caller supplies
ShippedTemplates ==
    [ topic    |-> architecture_research_topic_prompt,
      location |-> location_based_research_prompt,
      report   |-> architecture_report_template ]

TemplateSets == {
    ShippedTemplates,
    [ ShippedTemplates EXCEPT !.topic    = @ \cup {"year"} ],
    [ ShippedTemplates EXCEPT !.location = @ \cup {"year"} ],
    [ ShippedTemplates EXCEPT !.report   = @ \cup {"year"} ] }

UpperTable ==
    [ c \in { LowerChars[k] : k \in DOMAIN LowerChars } |->
        UpperChars[CHOOSE k \in DOMAIN LowerChars : LowerChars[k] = c] ]

UpperChar(c) == IF c \in DOMAIN UpperTable THEN UpperTable[c] ELSE c

Upper(s) == SubSeq([ k \in DOMAIN s |-> UpperChar(s[k]) ], 1, Len(s))

\* which section headings a report text carries, and in which case
SectionLayouts == {
    [ secs |-> <<1, 2, 3, 4, 5>>, upper |-> FALSE ],
    [ secs |-> <<1, 2, 3, 4, 5>>, upper |-> TRUE ],
    [ secs |-> <<1, 2, 3, 4>>,    upper |-> FALSE ],
    [ secs |-> <<3>>,             upper |-> FALSE ],
    [ secs |-> <<>>,              upper |-> FALSE ] }

ExtraTexts == {
    <<>>,
    <<"l","o","w"," ","c","o","s","t">>,
    <<"$","5">>,
    <<"B","u","d","g","e","t"," ","o","f"," ","t","h","e"," ","P","r","o","j","e","c","t">> }

RECURSIVE Headings(_, _)
Headings(layout, k) ==
    IF k > Len(layout.secs) THEN <<>>
    ELSE <<"#"," ">>
         \o (IF layout.upper THEN Upper(required_sections[layout.secs[k]])
                              ELSE required_sections[layout.secs[k]])
         \o <<"\n">> \o Headings(layout, k + 1)

RECURSIVE TrendWords(_)
TrendWords(n) ==
    IF n = 0 THEN <<>>
    ELSE (IF n % 2 = 0 THEN <<"T","r","e","n","d"," ">> ELSE <<"t","r","e","n","d","s"," ">>)
         \o TrendWords(n - 1)

ReportText(layout, n, extra) == Headings(layout, 1) \o TrendWords(n) \o extra

FullLayout == [ secs |-> <<1, 2, 3, 4, 5>>, upper |-> FALSE ]

UpperLayout == [ secs |-> <<1, 2, 3, 4, 5>>, upper |-> TRUE ]

NoLayout == [ secs |-> <<>>, upper |-> FALSE ]

\* every layout with every number of trend words; every extra text on the
\* full layout, on the upper-case layout and on a text without headings
ReportTexts ==
    { ReportText(l, n, <<>>) : l \in SectionLayouts, n \in 0..MaxTrendWords }
    \cup { ReportText(FullLayout, n, e) : n \in 0..MaxTrendWords, e \in ExtraTexts }
    \cup { ReportText(UpperLayout, MaxTrendWords, e) : e \in ExtraTexts }
    \cup { ReportText(NoLayout, MaxTrendWords + 1, e) : e \in ExtraTexts }

\* what the model answers
TopicReplies == { <<"b","r","i","e","f">> }

ReportReplies == {
    ReportText([ secs |-> <<1, 2, 3, 4, 5>>, upper |-> FALSE ], 2, <<"l","o","w"," ","c","o","s","t">>),
    ReportText([ secs |-> <<>>, upper |-> FALSE ], 0, <<>>) }

FindingsPool == {
    <<>>,
    << <<"s","t","e","e","l">>, <<"t","i","m","b","e","r">> >> }

Today == "today"

(***************************************************************************)
(* Prompt rendering (architecture_config.py 21-46)                         *)
(***************************************************************************)
NoPrompt == [ ok |-> FALSE, text |-> <<>> ]

get_enhanced_research_prompt(config, msgs, date) ==
    LET base_prompt == Format(templates.topic, [ messages |-> msgs, date |-> date ])
    IN  IF ~base_prompt.ok THEN FormatError
        ELSE IF config.location # None /\ config.location # "Global"
        THEN LET location_enhancement ==
                     Format(templates.location, [ location |-> config.location ])
             IN  IF ~location_enhancement.ok THEN FormatError
                 ELSE [ ok |-> TRUE, text |-> << base_prompt.text, location_enhancement.text >> ]
        ELSE [ ok |-> TRUE, text |-> << base_prompt.text >> ]

get_report_template(config, research_brief, findings, date) ==
    Format(templates.report,
           [ research_brief |-> research_brief, findings |-> findings, date |-> date ])

(***************************************************************************)
(* AgentState and the mappings the steps return                            *)
(***************************************************************************)
InitialState ==
    [ keys               |-> {"messages"},
      research_topic     |-> <<>>,
      architecture_config |-> NoConfig,
      research_findings  |-> <<>> ]

NoTopicResult ==
    [ keys |-> {}, research_topic |-> <<>>, messages |-> <<>>, architecture_config |-> NoConfig ]

NoReport ==
    [ kind |-> "none", focus_area |-> None, geographic_scope |-> None,
      time_frame |-> NoYear, report_content |-> <<>>, error |-> None ]

NoReportResult == [ keys |-> {}, final_report |-> NoReport, messages |-> <<>> ]

\* the framework folds the mapping a step returns into the state; a key the
\* state schema does not declare (kept = FALSE) is not carried over
StateMerge(st, result, kept) ==
    [ st EXCEPT
        !.keys = @ \cup (IF kept THEN result.keys ELSE result.keys \ {"architecture_config"}),
        !.research_topic = result.research_topic,
        !.architecture_config =
            IF kept /\ "architecture_config" \in result.keys
            THEN result.architecture_config ELSE @ ]

\* year or 2025
YearOrDefault(yr) == IF yr # NoYear THEN yr ELSE 2025

\* research_findings += f"\n\n{finding}\n\n" for each finding
RECURSIVE FindingsText(_)
FindingsText(findings) ==
    IF Len(findings) = 0 THEN <<>>
    ELSE <<"\n","\n">> \o Head(findings) \o <<"\n","\n">> \o FindingsText(Tail(findings))

DefaultBrief ==
    <<"A","r","c","h","i","t","e","c","t","u","r","e"," ","t","r","e","n","d"," ","a","n","a","l","y","s","i","s">>

\* the metadata block, the generated text, the disclaimer
enhance_architecture_report(report_content, config) ==
    [ kind             |-> "report",
      focus_area       |-> config.industry_focus,
      geographic_scope |-> config.location,
      time_frame       |-> config.year,
      report_content   |-> report_content,
      error            |-> None ]

\* f"Error generating architecture trend report: {e}"
ErrorReport(e) == [ NoReport EXCEPT !.kind = "error", !.error = e ]

(***************************************************************************)
(* architecture_transform_messages_into_research_topic                     *)
(***************************************************************************)
\* one iteration of `for message in messages` (46-73)
TransformExtract ==
    /\ pc = "topic_extract"
    /\ msg_index <= Len(messages)
    /\ LET content == MessageContent(messages[msg_index])
       IN  /\ location' = LocationAfter(content, location)
           /\ year' = YearAfter(content, year)
    /\ msg_index' = msg_index + 1
    /\ UNCHANGED << messages, templates, pc, arch_config, prompt, model_calls,
                    state, topic_result, report_result, raised >>
    /\ UNCHANGED << graph_vars, validations >>

\* after the loop: build the configuration, render the prompt, call the model (75-98)
TransformRender ==
    /\ pc = "topic_extract"
    /\ msg_index > Len(messages)
    /\ LET config == create_architecture_config(location, YearOrDefault(year),
                                                "Architecture & Construction")
           enhanced_prompt == get_enhanced_research_prompt(config, messages, Today)
       IN  /\ arch_config' = config
           /\ prompt' = enhanced_prompt
           /\ IF enhanced_prompt.ok
              THEN /\ model_calls' = Append(model_calls, "research_topic_gen_model")
                   /\ pc' = "topic_await"
                   /\ raised' = raised
              ELSE /\ model_calls' = model_calls
                   /\ pc' = "topic_raised"
                   /\ raised' = "KeyError"
    /\ UNCHANGED << messages, templates, msg_index, location, year, state,
                    topic_result, report_result >>
    /\ UNCHANGED << graph_vars, validations >>

\* the model answers (99-105)
TransformReturn ==
    /\ pc = "topic_await"
    /\ \E research_topic \in TopicReplies, kept \in BOOLEAN :
          /\ topic_result' =
                [ keys |-> {"research_topic", "messages", "architecture_config"},
                  research_topic |-> research_topic,
                  messages |-> Append(messages, research_topic),
                  architecture_config |-> arch_config ]
          /\ state' = StateMerge(state, topic_result', kept)
    /\ pc' = "topic_done"
    /\ UNCHANGED << messages, templates, msg_index, location, year, arch_config,
                    prompt, model_calls, report_result, raised >>
    /\ UNCHANGED << graph_vars, validations >>

\* the model call fails: except Exception -> the base transformation is called (107-109)
TransformFallback ==
    /\ pc = "topic_await"
    /\ model_calls' = Append(model_calls, "base_transform")
    /\ pc' = "fallback_await"
    /\ UNCHANGED << messages, templates, msg_index, location, year, arch_config,
                    prompt, state, topic_result, report_result, raised >>
    /\ UNCHANGED << graph_vars, validations >>

\* the base transformation's own model call answers: its mapping is returned
BaseTransformReturn ==
    /\ pc = "fallback_await"
    /\ \E research_topic \in TopicReplies :
          /\ topic_result' =
                [ keys |-> {"research_topic", "messages"},
                  research_topic |-> research_topic,
                  messages |-> Append(messages, research_topic),
                  architecture_config |-> NoConfig ]
          /\ state' = StateMerge(state, topic_result', TRUE)
    /\ pc' = "topic_done"
    /\ UNCHANGED << messages, templates, msg_index, location, year, arch_config,
                    prompt, model_calls, report_result, raised >>
    /\ UNCHANGED << graph_vars, validations >>

\* the base transformation's own model call fails: nothing around the call at
\* line 109 catches what it raises
BaseTransformRaise ==
    /\ pc = "fallback_await"
    /\ raised' = "ModelError"
    /\ pc' = "topic_raised"
    /\ UNCHANGED << messages, templates, msg_index, location, year, arch_config,
                    prompt, model_calls, state, topic_result, report_result >>
    /\ UNCHANGED << graph_vars, validations >>

\* the research stage between the two steps leaves its findings in the state
ResearchStage ==
    /\ pc = "topic_done"
    /\ \E findings \in FindingsPool :
          state' = [ state EXCEPT !.keys = @ \cup {"research_findings"},
                                  !.research_findings = findings ]
    /\ pc' = "report_start"
    /\ UNCHANGED << messages, templates, msg_index, location, year, arch_config,
                    prompt, model_calls, topic_result, report_result, raised >>
    /\ UNCHANGED << graph_vars, validations >>

(***************************************************************************)
(* architecture_final_report_generation                                    *)
(***************************************************************************)
\* the default configuration whatever the state holds
ReportConfigAlwaysDefault(stored) == create_architecture_config(None, NoYear, None)

\* arch_config = state.get("architecture_config"); if not arch_config: the default one
ReportConfig(stored) ==
    IF stored = NoConfig
    THEN create_architecture_config(None, NoYear, None)
    ELSE stored

\* configuration from the state or the default one, the prompt, the model call (115-146)
FinalReportRender ==
    /\ pc = "report_start"
    /\ LET stored == IF "architecture_config" \in state.keys
                     THEN state.architecture_config ELSE NoConfig
           config == ReportConfig(stored)
           research_findings == FindingsText(state.research_findings)
           research_brief == IF "research_topic" \in state.keys
                             THEN state.research_topic ELSE DefaultBrief
           final_report_prompt ==
               get_report_template(config, research_brief, research_findings, Today)
       IN  /\ arch_config' = config
           /\ prompt' = final_report_prompt
           /\ IF final_report_prompt.ok
              THEN /\ model_calls' = Append(model_calls, "final_report_model")
                   /\ pc' = "report_await"
                   /\ raised' = raised
              ELSE /\ model_calls' = model_calls
                   /\ pc' = "report_raised"
                   /\ raised' = "KeyError"
    /\ UNCHANGED << messages, templates, msg_index, location, year, state,
                    topic_result, report_result >>
    /\ UNCHANGED << graph_vars, validations >>

\* the model answers: the report is post-processed and returned (147-154)
FinalReportReturn ==
    /\ pc = "report_await"
    /\ \E final_report \in ReportReplies :
          report_result' =
             [ keys |-> {"final_report", "messages"},
               final_report |-> enhance_architecture_report(final_report, arch_config),
               messages |-> << final_report >> ]
    /\ pc' = "done"
    /\ UNCHANGED << messages, templates, msg_index, location, year, arch_config,
                    prompt, model_calls, state, topic_result, raised >>
    /\ UNCHANGED << graph_vars, validations >>

\* the model call fails: the error text becomes the report (156-160)
FinalReportError ==
    /\ pc = "report_await"
    /\ report_result' =
          [ keys |-> {"final_report", "messages"},
            final_report |-> ErrorReport("ModelError"),
            messages |-> <<>> ]
    /\ pc' = "done"
    /\ UNCHANGED << messages, templates, msg_index, location, year, arch_config,
                    prompt, model_calls, state, topic_result, raised >>
    /\ UNCHANGED << graph_vars, validations >>

(***************************************************************************)
(* create_architecture_research_system (architecture_researcher.py 193)    *)
(***************************************************************************)
MaxSystems == 3

TopicNode == "transform_messages_into_research_topic"

ReportNode == "final_report_generation"

\* steps of the base graph besides the two replaced ones
OtherNodes == { "clarify_with_user", "research_supervisor", "researcher" }

\* the base builder's step table: every step maps to the base implementation
BaseStepTable == [ n \in {TopicNode, ReportNode} |-> n ]

\* nodes[name] = callable
NodeAssign(table, name, callable) ==
    [ n \in (DOMAIN table) \cup {name} |-> IF n = name THEN callable ELSE table[n] ]

\* no copy: the builder's own graph object is handed on
GraphShare(heap, ref) == [ heap |-> heap, ref |-> ref ]

\* deep_researcher_builder.get_graph().copy(): a new graph object whose step
\* table starts as the base one
GraphCopy(heap, ref) == [ heap |-> Append(heap, heap[ref]), ref |-> Len(heap) + 1 ]

create_architecture_research_system ==
    /\ pc = "idle"
    /\ Len(systems) < MaxSystems
    /\ LET arch_builder == GraphCopy(graphs, 1)
           replaced_topic ==
               NodeAssign(arch_builder.heap[arch_builder.ref], TopicNode,
                          "architecture_transform_messages_into_research_topic")
           replaced_both ==
               NodeAssign(replaced_topic, ReportNode,
                          "architecture_final_report_generation")
       IN  /\ graphs' = [ arch_builder.heap EXCEPT ![arch_builder.ref] = replaced_both ]
           /\ systems' = Append(systems, arch_builder.ref)
    /\ UNCHANGED << request_vars, validations >>

\* the framework registers one more step on the base builder
BuilderAddNode ==
    /\ pc = "idle"
    /\ \E n \in OtherNodes \ DOMAIN graphs[1] :
          graphs' = [ graphs EXCEPT ![1] = NodeAssign(@, n, n) ]
    /\ UNCHANGED << systems, request_vars, validations >>

(***************************************************************************)
(* A call of the validator                                                 *)
(***************************************************************************)
ValidateReport ==
    /\ pc = "idle"
    /\ \E report_content \in ReportTexts :
          LET call == [ report_content |-> report_content,
                        arch_config |-> arch_config,
                        results |-> validate_architecture_report_quality(report_content, arch_config) ]
          IN  validations' = IF Len(validations) < 2
                             THEN Append(validations, call)
                             ELSE Append(Tail(validations), call)
    /\ UNCHANGED << request_vars, graph_vars >>

(***************************************************************************)
(* Specifications                                                          *)
(***************************************************************************)
\* a request entering the topic transformation
InitRequest ==
    /\ messages \in MessageLists
    /\ templates \in TemplateSets
    /\ pc = "topic_extract"
    /\ msg_index = 1
    /\ location = None
    /\ year = NoYear
    /\ arch_config = NoConfig
    /\ prompt = NoPrompt
    /\ model_calls = <<>>
    /\ state = InitialState
    /\ topic_result = NoTopicResult
    /\ report_result = NoReportResult
    /\ raised = None

\* no request in progress
NoRequest ==
    /\ messages = <<>>
    /\ templates = ShippedTemplates
    /\ pc = "idle"
    /\ msg_index = 1
    /\ location = None
    /\ year = NoYear
    /\ arch_config = create_architecture_config(None, NoYear, None)
    /\ prompt = NoPrompt
    /\ model_calls = <<>>
    /\ state = InitialState
    /\ topic_result = NoTopicResult
    /\ report_result = NoReportResult
    /\ raised = None

InitGraphs ==
    /\ graphs = << BaseStepTable >>
    /\ systems = <<>>

Init ==
    /\ InitRequest
    /\ InitGraphs
    /\ validations = <<>>

Next ==
    \/ TransformExtract
    \/ TransformRender
    \/ TransformReturn
    \/ TransformFallback
    \/ BaseTransformReturn
    \/ BaseTransformRaise
    \/ ResearchStage
    \/ FinalReportRender
    \/ FinalReportReturn
    \/ FinalReportError

Spec == Init /\ [][Next]_vars

InitGraph ==
    /\ NoRequest
    /\ InitGraphs
    /\ validations = <<>>

NextGraph ==
    \/ create_architecture_research_system
    \/ BuilderAddNode

SpecGraph == InitGraph /\ [][NextGraph]_vars

InitValidator ==
    /\ NoRequest
    /\ InitGraphs
    /\ validations = <<>>

NextValidator == ValidateReport

SpecValidator == InitValidator /\ [][NextValidator]_vars

(***************************************************************************)
(* Properties of the extraction                                            *)
(***************************************************************************)
\* the loop over the messages has run to its end
ExtractionDone == msg_index > Len(messages)

\* some message contains keyword k of the table (case-insensitive)
KeywordFound(k) ==
    \E m \in DOMAIN messages :
        Contains(Lower(messages[m]), location_keywords[k].keyword)

TokyoIndex ==
    CHOOSE k \in DOMAIN location_keywords :
        location_keywords[k].location_value = "Tokyo, Japan"

\* the 4-digit numbers of a text that lie in [2024,2035]: maximal runs of
\* exactly four digits
FourDigitYears(s) ==
    { IntOf(SubSeq(s, p, p + 3)) : p \in
        { q \in 1..Len(s) :
            /\ q + 3 <= Len(s)
            /\ \A d \in 0..3 : IsDigit(s[q + d])
            /\ (q = 1 \/ ~IsDigit(s[q - 1]))
            /\ (q + 4 > Len(s) \/ ~IsDigit(s[q + 4]))
            /\ IntOf(SubSeq(s, q, q + 3)) \in 2024..2035 } }

YearsInMessages == UNION { FourDigitYears(messages[m]) : m \in DOMAIN messages }

\* some message has a match of the year pattern
YearPatternFound ==
    \E m \in DOMAIN messages :
        \E p \in 1..Len(messages[m]) : YearPatternAt(Lower(messages[m]), p)

CanonicalLocations ==
    { location_keywords[k].location_value : k \in DOMAIN location_keywords }
    \cup { "United States" }

\* C1: whenever some message contains "tokyo" (case-insensitive) and no message
\* contains 'new york', 'california' or 'london', the extracted location is
\* "Tokyo, Japan", whatever the other messages contain.
C1_TokyoExtracted ==
    ( /\ ExtractionDone
      /\ KeywordFound(TokyoIndex)
      /\ \A k \in 1..(TokyoIndex - 1) : ~KeywordFound(k) )
    => location = "Tokyo, Japan"

\* C2: the extracted year is a 4-digit number in [2024,2035] of the messages
\* whenever there is one, and no other number (below 2024, above 2035, longer
\* than four digits) ever produces a year.
C2_YearIsFourDigitNumber ==
    ExtractionDone =>
        IF YearsInMessages # {} THEN year \in YearsInMessages ELSE year = NoYear

\* C6: the configuration built by the topic transformation has a year in
\* [2024,2035] and a canonical location; without a location keyword the
\* location is "United States", without a match of the year pattern the year
\* is 2025.
C6_ConfigWithinRange ==
    pc \in {"topic_await", "fallback_await", "topic_done", "topic_raised"} =>
        /\ arch_config.year \in 2024..2035
        /\ arch_config.location \in CanonicalLocations
        /\ (\A k \in DOMAIN location_keywords : ~KeywordFound(k))
              => arch_config.location = "United States"
        /\ ~YearPatternFound => arch_config.year = 2025

\* a configuration was built from messages that hold neither a keyword nor a year
C6_Witness ==
    /\ pc = "topic_await"
    /\ Len(messages) = 2
    /\ \A k \in DOMAIN location_keywords : ~KeywordFound(k)
    /\ ~YearPatternFound
    /\ arch_config.location = "United States"
    /\ arch_config.year = 2025

\* C10: when the messages contain several location keywords, the extracted
\* location is the value of the keyword that comes first in the table among
\* all the keywords found in any message.
C10_FirstTableKeywordWins ==
    ( /\ ExtractionDone
      /\ \E k \in DOMAIN location_keywords : KeywordFound(k) )
    => location =
         location_keywords[
            CHOOSE k \in DOMAIN location_keywords :
               /\ KeywordFound(k)
               /\ \A j \in 1..(k - 1) : ~KeywordFound(j) ].location_value

(***************************************************************************)
(* Properties of the failure handling                                      *)
(***************************************************************************)
\* C5: a failure of the model call never escapes either step: the report
\* generation returns an error report with no messages, the topic
\* transformation returns what the fallback returns, also when the fallback's
\* own model call fails.
C5_ModelFailureNeverEscapes ==
    /\ raised # "ModelError"
    /\ report_result.final_report.kind = "error" => report_result.messages = <<>>

TopicRenderFails ==
    \/ ~(templates.topic \subseteq {"messages", "date"})
    \/ ~(templates.location \subseteq {"location"})

ReportRenderFails ==
    ~(templates.report \subseteq {"research_brief", "findings", "date"})

\* C8: a template placeholder without a value fails the step with the
\* formatting error: no fallback, no error report, and no model call for that
\* prompt.
C8_RenderFailurePropagates ==
    /\ (TopicRenderFails /\ pc # "topic_extract") =>
          /\ pc = "topic_raised"
          /\ raised = "KeyError"
          /\ model_calls = <<>>
          /\ topic_result = NoTopicResult
    /\ (ReportRenderFails /\ pc \in {"report_await", "report_raised", "done"}) =>
          /\ pc = "report_raised"
          /\ raised = "KeyError"
          /\ report_result = NoReportResult
          /\ \A c \in DOMAIN model_calls : model_calls[c] # "final_report_model"

\* the report template failed to render after the topic step had succeeded
C8_Witness ==
    /\ ReportRenderFails
    /\ pc = "report_raised"
    /\ raised = "KeyError"
    /\ model_calls # <<>>

(***************************************************************************)
(* Properties of the node substitution                                     *)
(***************************************************************************)
ReplacedNodes == { TopicNode, ReportNode }

TrendOccurrences(text) ==
    Cardinality({ p \in 1..Len(text) : MatchAt(Lower(text), TrendText, p) })

HasSection(text, k) == Contains(Lower(text), Lower(required_sections[k]))

HasCostTerm(text) ==
    \E k \in DOMAIN cost_terms : Contains(Lower(text), cost_terms[k])

CostRecommendation == "Consider adding cost analysis and budget implications"

InSeq(x, q) == \E k \in DOMAIN q : q[k] = x

\* C3: a text with fewer than 3 occurrences of "trend" fails validation and
\* its issues report the trend count, whatever else the text contains.
C3_FewTrendsFail ==
    \A v \in DOMAIN validations :
        LET call == validations[v]
        IN  TrendOccurrences(call.report_content) < 3 =>
               /\ call.results.passes_validation = FALSE
               /\ \E k \in DOMAIN call.results.issues :
                     /\ call.results.issues[k].kind = "trend_count"
                     /\ call.results.issues[k].count = TrendOccurrences(call.report_content)

\* a text with all five sections and a cost term, but two occurrences of
\* "trend", was validated and failed
C3_Witness ==
    \E v \in DOMAIN validations :
        LET call == validations[v]
        IN  /\ TrendOccurrences(call.report_content) = 2
            /\ \A k \in DOMAIN required_sections : HasSection(call.report_content, k)
            /\ HasCostTerm(call.report_content)
            /\ call.results.passes_validation = FALSE
            /\ Len(call.results.issues) = 1

\* C4: a text with all five section names (in any case), at least 3
\* occurrences of "trend" and a cost term passes validation with no issue and
\* no cost recommendation.
C4_CompleteReportPasses ==
    \A v \in DOMAIN validations :
        LET call == validations[v]
        IN  ( /\ \A k \in DOMAIN required_sections : HasSection(call.report_content, k)
              /\ TrendOccurrences(call.report_content) >= 3
              /\ HasCostTerm(call.report_content) )
            => /\ call.results.passes_validation = TRUE
               /\ call.results.issues = <<>>
               /\ ~InSeq(CostRecommendation, call.results.recommendations)

\* an upper-case report with every section, three trends and "$" passed
C4_Witness ==
    \E v \in DOMAIN validations :
        LET call == validations[v]
        IN  /\ \A k \in DOMAIN required_sections : HasSection(call.report_content, k)
            /\ ~Contains(call.report_content, required_sections[1])
            /\ TrendOccurrences(call.report_content) >= 3
            /\ Contains(call.report_content, <<"$">>)
            /\ call.results.passes_validation = TRUE
            /\ call.results.issues = <<>>

\* an issue or a recommendation of a result is about the text of its own call
IssueAbout(issue, text) ==
    \/ /\ issue.kind = "trend_count"
       /\ issue.count = TrendOccurrences(text)
       /\ issue.count < 3
    \/ /\ issue.kind = "missing_section"
       /\ \E k \in DOMAIN required_sections :
             required_sections[k] = issue.section /\ ~HasSection(text, k)

RecommendationAbout(rec, text) ==
    \/ /\ rec = "Consider adding specific project examples"
       /\ ~Contains(Lower(text), ProjectText)
       /\ ~Contains(Lower(text), BuildingText)
    \/ /\ rec = CostRecommendation
       /\ ~HasCostTerm(text)

NoRepeats(q) == \A a, b \in DOMAIN q : q[a] = q[b] => a = b

\* C9: two calls on the same text and configuration return equal results, the
\* configuration is what it was before the calls, and each result is the
\* call's own: every issue and recommendation in it is about that call's text
\* and occurs once.
C9_DeterministicAndFresh ==
    /\ \A v, w \in DOMAIN validations :
          ( /\ validations[v].report_content = validations[w].report_content
            /\ validations[v].arch_config = validations[w].arch_config )
          => validations[v].results = validations[w].results
    /\ \A v \in DOMAIN validations :
          LET call == validations[v]
          IN  /\ call.arch_config = arch_config
              /\ arch_config = create_architecture_config(None, NoYear, None)
              /\ NoRepeats(call.results.issues)
              /\ NoRepeats(call.results.recommendations)
              /\ \A k \in DOMAIN call.results.issues :
                    IssueAbout(call.results.issues[k], call.report_content)
              /\ \A k \in DOMAIN call.results.recommendations :
                    RecommendationAbout(call.results.recommendations[k], call.report_content)

\* the same failing text was validated twice in a row, and a different text
\* after a failing one came out clean
C9_Witness ==
    /\ Len(validations) = 2
    /\ validations[1].report_content = validations[2].report_content
    /\ validations[1].results.issues # <<>>
    /\ validations[1].results.recommendations # <<>>
    /\ validations[1].results = validations[2].results

(***************************************************************************)
(* Properties of the order of extraction                                   *)
(***************************************************************************)
\* the messages the loop has been through
Processed == 1..(msg_index - 1)

\* message m has a match of the year pattern
YieldsYear(m) ==
    \E p \in 1..Len(messages[m]) : YearPatternAt(Lower(messages[m]), p)

\* the year message m yields: its leftmost match, as a number
YearOf(m) ==
    LET content == Lower(messages[m])
        p == YearSearch(content)
    IN  IntOf(SubSeq(content, p, p + 3))

\* C11: the extracted year is the first match across the message sequence:
\* once a message has yielded a year, no later message changes it.
C11_FirstYearKept ==
    (\E m \in Processed : YieldsYear(m)) =>
        year = YearOf(CHOOSE m \in Processed :
                         /\ YieldsYear(m)
                         /\ \A j \in 1..(m - 1) : ~YieldsYear(j))

(***************************************************************************)
(* Properties of the validation result                                     *)
(***************************************************************************)
\* the quality indicators the criteria enable
EnabledIndicators ==
    { i \in DOMAIN get_validation_criteria.quality_indicators :
         get_validation_criteria.quality_indicators[i] }

\* C12: every quality indicator enabled in the criteria is checked against the
\* text, and an indicator whose keywords are absent adds a recommendation: a
\* text that holds nothing at all gets one recommendation per enabled indicator.
C12_EveryIndicatorChecked ==
    \A v \in DOMAIN validations :
        validations[v].report_content = <<>> =>
            Len(validations[v].results.recommendations) = Cardinality(EnabledIndicators)

SectionIndex(section) ==
    CHOOSE k \in DOMAIN required_sections : required_sections[k] = section

\* C13: a result fails exactly when it has issues, whatever recommendations it
\* has; the trend-count issue comes first and the missing sections follow in
\* the order of required_sections.
C13_FailsExactlyWithIssues ==
    \A v \in DOMAIN validations :
        LET results == validations[v].results
        IN  /\ results.passes_validation = (results.issues = <<>>)
            /\ \A k \in DOMAIN results.issues :
                  results.issues[k].kind = "trend_count" => k = 1
            /\ \A a, b \in DOMAIN results.issues :
                  ( /\ a < b
                    /\ results.issues[a].kind = "missing_section"
                    /\ results.issues[b].kind = "missing_section" )
                  => SectionIndex(results.issues[a].section)
                        < SectionIndex(results.issues[b].section)

\* one call failed with the trend-count issue followed by missing sections,
\* another passed with recommendations and no issue
C13_Witness ==
    /\ \E v \in DOMAIN validations :
          /\ Len(validations[v].results.issues) >= 3
          /\ validations[v].results.issues[1].kind = "trend_count"
          /\ validations[v].results.issues[2].kind = "missing_section"
          /\ ~validations[v].results.passes_validation
    /\ \E v \in DOMAIN validations :
          /\ validations[v].results.issues = <<>>
          /\ Len(validations[v].results.recommendations) = 2
          /\ validations[v].results.passes_validation

(***************************************************************************)
(* Properties of the report flow                                           *)
(***************************************************************************)
\* the report step returned a generated report
ReportGenerated == pc = "done" /\ report_result.final_report.kind = "report"

\* C14: every successful run of architecture_final_report_generation passes
\* the generated text through validate_architecture_report_quality.
C14_GeneratedReportValidated ==
    ReportGenerated =>
        \E v \in DOMAIN validations :
            validations[v].report_content = report_result.final_report.report_content

\* the configuration the topic step built from the messages
ExtractedConfig ==
    create_architecture_config(location, YearOrDefault(year), "Architecture & Construction")

\* the topic step took the fallback path
FallbackTaken == \E k \in DOMAIN model_calls : model_calls[k] = "base_transform"

\* C15: the report's metadata carries the extracted location and year when the
\* state holds the architecture_config of the topic step; after the fallback
\* path, or without that entry, it states "United States" and 2025.
C15_MetadataFromStoredConfigOrDefault ==
    ReportGenerated =>
        LET final_report == report_result.final_report
        IN  /\ FallbackTaken => "architecture_config" \notin state.keys
            /\ IF "architecture_config" \in state.keys
               THEN /\ final_report.geographic_scope = ExtractedConfig.location
                    /\ final_report.time_frame = ExtractedConfig.year
               ELSE /\ final_report.geographic_scope = "United States"
                    /\ final_report.time_frame = 2025

\* a report after the fallback path states the defaults although the messages
\* held a location and a year
C15_Witness ==
    /\ ReportGenerated
    /\ FallbackTaken
    /\ location # None
    /\ year # NoYear
    /\ report_result.final_report.geographic_scope = "United States"
    /\ report_result.final_report.time_frame = 2025

\* a report made from the stored configuration states the extracted values
StoredConfigReported ==
    /\ ReportGenerated
    /\ "architecture_config" \in state.keys
    /\ location # None
    /\ year # NoYear
    /\ report_result.final_report.geographic_scope = location
    /\ report_result.final_report.time_frame = year

====
